---- MODULE Spec2Model ----
(***************************************************************************)
(* A model of base_kivy_app: the configuration read/apply cycle of         *)
(* config.py, the settings methods of BaseKivyApp, the exception wrappers  *)
(* and start-up / close handling of app.py, and the error indicator and    *)
(* TimeLine widgets of graphics.py.                                        *)
(*                                                                         *)
(* Python values are tagged records:                                       *)
(*   [tag |-> "none"]                 None                                 *)
(*   [tag |-> "val",  v |-> n]        a scalar (bool / number)             *)
(*   [tag |-> "dict", m |-> f]        a dict, f a function on its keys     *)
(*   [tag |-> "list", l |-> s]        a list or tuple                      *)
(*   [tag |-> "obj",  id |-> o]       a reference to instance o            *)
(*   [tag |-> "cls",  id |-> c]       a class object                       *)
(* A call's outcome is a record whose err field names the exception that   *)
(* escaped it, or NoErr.                                                   *)
(***************************************************************************)
EXTENDS Integers, Sequences, FiniteSets, TLC

VARIABLES heap, app_settings, file, json_config_path, last,
          running, error_indicator, clock, logged, calls,
          window, disk, timeline

config_vars == <<heap, app_settings, file, json_config_path, last>>
error_vars == <<running, error_indicator, clock, logged, calls>>
ui_vars == <<window, disk, timeline>>
vars == <<heap, app_settings, file, json_config_path, last,
          running, error_indicator, clock, logged, calls,
          window, disk, timeline>>

\* Property values range over 0..MaxVal.
MaxVal == 1
Values == 0..MaxVal

\* ---------------------------------------------------------------- values

None == [tag |-> "none"]
Val(n) == [tag |-> "val", v |-> n]
Dict(m) == [tag |-> "dict", m |-> m]
List(l) == [tag |-> "list", l |-> l]
Obj(o) == [tag |-> "obj", id |-> o]
Cls(c) == [tag |-> "cls", id |-> c]
EmptyDict == Dict(<<>>)

NoErr == "ok"

isclass(x) == x.tag = "cls"

\* Python truth value of x being false (`not x`).
Falsy(x) ==
    CASE x.tag = "none" -> TRUE
      [] x.tag = "val" -> x.v = 0
      [] x.tag = "dict" -> DOMAIN x.m = {}
      [] x.tag = "list" -> x.l = <<>>
      [] OTHER -> FALSE

\* The values of a property: inspect and offset are BooleanProperty, the
\* others NumericProperty.
PropValues(k) == IF k \in {"inspect", "offset"} THEN {0, 1} ELSE Values

\* All dicts with exactly the keys keys, each with a value of its property.
FullDicts(keys) ==
    {Dict(f) : f \in {g \in [keys -> {Val(n) : n \in Values \cup {0, 1}}] :
                         \A k \in keys : g[k].v \in PropValues(k)}}

\* All dicts whose keys are a subset of keys.
PropDicts(keys) == UNION {FullDicts(ks) : ks \in SUBSET keys}

\* ------------------------------------------------- the classes and objects

\* The classes of the object graph. App stands for kivy's App: it declares
\* no __config_props__. Broken lists a property its class does not have.
Classes == {"App", "BaseKivyApp", "Top", "Root", "BaseLeaf", "Leaf",
            "ListHolder", "DictHolder", "Broken"}

\* cls.__bases__, up to (excluding) object.
Bases(c) ==
    CASE c = "BaseKivyApp" -> <<"App">>
      [] c = "Leaf" -> <<"BaseLeaf">>
      [] OTHER -> <<>>

\* Classes with '__config_props__' in their own __dict__.
HasConfigProps == Classes \ {"App", "Top", "ListHolder", "DictHolder"}

\* cls.__config_props__ as written in the class body.
ConfigProps(c) ==
    CASE c = "BaseKivyApp" -> <<"inspect">>
      [] c = "Root" -> <<"rate">>
      [] c = "BaseLeaf" -> <<"offset">>
      [] c = "Leaf" -> <<"gain", "offset">>
      [] c = "Broken" -> <<"ghost">>
      [] OTHER -> <<>>

\* The attributes hasattr(cls, attr) finds on a class.
ClassAttrs(c) ==
    CASE c = "BaseKivyApp" -> {"inspect"}
      [] c = "Root" -> {"rate"}
      [] c = "BaseLeaf" -> {"offset"}
      [] c = "Leaf" -> {"gain", "offset"}
      [] OTHER -> {}

Instances == {"app", "top", "root", "leaf1", "leaf2", "lholder", "dholder",
              "broken"}

ClassOf(o) ==
    CASE o = "app" -> "BaseKivyApp"
      [] o = "top" -> "Top"
      [] o = "root" -> "Root"
      [] o = "leaf1" -> "Leaf"
      [] o = "leaf2" -> "BaseLeaf"
      [] o = "lholder" -> "ListHolder"
      [] o = "dholder" -> "DictHolder"
      [] o = "broken" -> "Broken"

\* Classes that define the classmethod get_config_classes.
HasGetConfigClasses == {"BaseKivyApp"}

\* cls.get_config_classes(): the items of the returned dict, in order.
get_config_classes(c) == <<<<"app", Cls(c)>>>>

\* Instances that define get_config_instances.
HasGetConfigInstances == {"app", "top", "root", "lholder", "dholder"}

\* obj.get_config_instances(): the items of the returned dict, in order.
get_config_instances(o) ==
    CASE o = "app" -> <<<<"app", Obj(o)>>>>
      [] o = "top" -> <<<<"main", Obj("root")>>, <<"aux", Obj("leaf2")>>>>
      [] o = "root" -> <<<<"child", Obj("leaf1")>>>>
      [] o = "lholder" -> <<<<"items", List(<<Obj("leaf1"), Obj("leaf2")>>)>>>>
      [] o = "dholder" ->
            <<<<"chans", Dict([k \in {"a", "b"} |->
                    IF k = "a" THEN Obj("leaf2") ELSE Obj("root")])>>>>
      [] OTHER -> <<>>

\* ------------------------------------------------------------- config.py

RECURSIVE _get_bases(_)
RECURSIVE read_config_from_object(_, _, _)
RECURSIVE apply_config(_, _, _, _)
RECURSIVE apply_config_to_declared_objects(_, _, _, _, _)

\* The bases of cls, each preceded by its own bases.
_get_bases(cls) ==
    LET bs == Bases(cls)
        F[i \in 0..Len(bs)] ==
            IF i = 0 THEN <<>>
            ELSE F[i - 1] \o _get_bases(bs[i]) \o <<bs[i]>>
    IN F[Len(bs)]

\* The __config_props__ of cls and its bases, without repeats, as
\* [attrs, err]: err is "Exception" when a listed attribute is missing.
_get_settings_attrs(cls) ==
    LET cs == <<cls>> \o _get_bases(cls)
        C[i \in 0..Len(cs)] ==
            IF i = 0 THEN <<>>
            ELSE IF cs[i] \notin HasConfigProps THEN C[i - 1]
            ELSE C[i - 1] \o ConfigProps(cs[i])
        cand == C[Len(cs)]
        A[i \in 0..Len(cand)] ==
            IF i = 0 THEN [attrs |-> <<>>, err |-> NoErr]
            ELSE LET p == A[i - 1]
                     attr == cand[i]
                 IN IF p.err # NoErr THEN p
                    ELSE IF \E j \in 1..Len(p.attrs) : p.attrs[j] = attr THEN p
                    ELSE IF attr \notin ClassAttrs(cls)
                         THEN [attrs |-> p.attrs, err |-> "Exception"]
                    ELSE [attrs |-> Append(p.attrs, attr), err |-> NoErr]
    IN A[Len(cand)]

\* The value of get_config_classes / get_config_instances of obj, or None
\* when obj has no such method (objects stays None).
DeclaredObjects(obj) ==
    IF isclass(obj)
    THEN IF obj.id \in HasGetConfigClasses
         THEN [tag |-> "items", items |-> get_config_classes(obj.id)]
         ELSE None
    ELSE IF obj.tag = "obj" /\ obj.id \in HasGetConfigInstances
         THEN [tag |-> "items", items |-> get_config_instances(obj.id)]
         ELSE None

\* obj in list(objects.values())
InValues(obj, objects) ==
    \E i \in 1..Len(objects.items) : objects.items[i][2] = obj

\* The keys of the mapping objects.
Keys(objects) == {objects.items[i][1] : i \in 1..Len(objects.items)}

\* FillEntry without the list/tuple branch: a list is read as one object.
FillEntry_NoListBranch(h, root_obj, obj) ==
    IF obj.tag = "dict"
    THEN LET rs == [k \in DOMAIN obj.m |->
                       read_config_from_object(h, obj.m[k], obj.m[k] = root_obj)]
         IN IF \E k \in DOMAIN rs : rs[k].err # NoErr
            THEN [v |-> None, err |-> "Exception"]
            ELSE [v |-> Dict([k \in DOMAIN rs |-> rs[k].v]), err |-> NoErr]
    ELSE read_config_from_object(h, obj, obj = root_obj)

\* The config of one declared entry: a dict, a list/tuple or a single object.
FillEntry(h, root_obj, obj) ==
    IF obj.tag = "dict"
    THEN LET rs == [k \in DOMAIN obj.m |->
                       read_config_from_object(h, obj.m[k], obj.m[k] = root_obj)]
         IN IF \E k \in DOMAIN rs : rs[k].err # NoErr
            THEN [v |-> None, err |-> "Exception"]
            ELSE [v |-> Dict([k \in DOMAIN rs |-> rs[k].v]), err |-> NoErr]
    ELSE IF obj.tag = "list"
    THEN LET rs == [i \in 1..Len(obj.l) |->
                       read_config_from_object(h, obj.l[i], obj.l[i] = root_obj)]
         IN IF \E i \in DOMAIN rs : rs[i].err # NoErr
            THEN [v |-> None, err |-> "Exception"]
            ELSE [v |-> List([i \in DOMAIN rs |-> rs[i].v]), err |-> NoErr]
    ELSE read_config_from_object(h, obj, obj = root_obj)

\* config[name] = ... for every declared entry; reading changes nothing, so
\* the call raises exactly when one of the entries does.
fill_config_from_declared_objects(h, root_obj, classes) ==
    LET idx(name) == CHOOSE i \in 1..Len(classes) :
                        /\ classes[i][1] = name
                        /\ \A j \in (i + 1)..Len(classes) : classes[j][1] # name
        rs == [name \in {classes[i][1] : i \in 1..Len(classes)} |->
                  FillEntry(h, root_obj, classes[idx(name)][2])]
    IN IF \E name \in DOMAIN rs : rs[name].err # NoErr
       THEN [v |-> None, err |-> "Exception"]
       ELSE [v |-> Dict([name \in DOMAIN rs |-> rs[name].v]), err |-> NoErr]

\* The class branch of read_config_from_object: every listed attribute is
\* stored, over whatever the declared objects put under that name.
ReadClassProps(h, obj, config) ==
    LET sa == _get_settings_attrs(obj.id)
        names == {sa.attrs[i] : i \in 1..Len(sa.attrs)}
    IN IF sa.err # NoErr THEN [v |-> None, err |-> sa.err]
       ELSE [v |-> Dict([k \in DOMAIN config.m \cup names |->
                            IF k \in names THEN h[obj.id][k] ELSE config.m[k]]),
             err |-> NoErr]

\* The instance branch: a listed attribute is stored unless the name is
\* already in config. Lists and dicts have no class with __config_props__.
ReadInstanceProps(h, obj, config) ==
    LET sa == IF obj.tag = "obj" THEN _get_settings_attrs(ClassOf(obj.id))
              ELSE [attrs |-> <<>>, err |-> NoErr]
        names == {sa.attrs[i] : i \in 1..Len(sa.attrs)}
    IN IF sa.err # NoErr THEN [v |-> None, err |-> sa.err]
       ELSE [v |-> Dict([k \in DOMAIN config.m \cup names |->
                            IF k \in DOMAIN config.m THEN config.m[k]
                            ELSE h[obj.id][k]]),
             err |-> NoErr]

read_config_from_object(h, obj, get_props_only) ==
    LET objects == IF get_props_only THEN None ELSE DeclaredObjects(obj)
        filled == IF objects # None
                  THEN fill_config_from_declared_objects(h, obj, objects.items)
                  ELSE [v |-> EmptyDict, err |-> NoErr]
    IN IF filled.err # NoErr THEN filled
       ELSE IF objects # None /\ InValues(obj, objects) THEN filled
       ELSE IF isclass(obj) THEN ReadClassProps(h, obj, filled.v)
       ELSE ReadInstanceProps(h, obj, filled.v)

\* `name in config`: a key test on a dict, a membership test on a list (no
\* list of configs holds a name), a TypeError on a scalar or None.
NameIn(name, config) ==
    CASE config.tag = "dict" -> name \in DOMAIN config.m
      [] OTHER -> FALSE

\* for name, obj in classes.items(), from item i on. No object of the graph
\* defines the optional hook apply_config_instance.
apply_config_to_declared_objects(h, root_obj, classes, config, i) ==
    IF i > Len(classes) THEN [h |-> h, err |-> NoErr]
    ELSE IF config.tag \in {"val", "none"} THEN [h |-> h, err |-> "TypeError"]
    ELSE IF NameIn(classes[i][1], config)
    THEN LET r == apply_config(h, classes[i][2], config.m[classes[i][1]],
                               classes[i][2] = root_obj)
         IN IF r.err # NoErr THEN r
            ELSE apply_config_to_declared_objects(r.h, root_obj, classes, config,
                                                  i + 1)
    ELSE apply_config_to_declared_objects(h, root_obj, classes, config, i + 1)

\* SetAttrs that also puts every attribute absent from config_values back
\* to the class default.
SetAttrs_ResetsAbsent(h, obj, config_values) ==
    IF DOMAIN config_values = {} THEN [h |-> h, err |-> NoErr]
    ELSE IF obj.tag # "obj" THEN [h |-> h, err |-> "AttributeError"]
    ELSE [h |-> [h EXCEPT ![obj.id] =
                    [k \in DOMAIN @ \cup DOMAIN config_values |->
                        IF k \in DOMAIN config_values THEN config_values[k]
                        ELSE Val(0)]],
          err |-> NoErr]

\* setattr(obj, k, v) for every item of config_values: on an instance every
\* key is assigned; a list or a dict has no settable attributes.
SetAttrs(h, obj, config_values) ==
    IF DOMAIN config_values = {} THEN [h |-> h, err |-> NoErr]
    ELSE IF obj.tag # "obj" THEN [h |-> h, err |-> "AttributeError"]
    ELSE [h |-> [h EXCEPT ![obj.id] =
                    [k \in DOMAIN @ \cup DOMAIN config_values |->
                        IF k \in DOMAIN config_values THEN config_values[k]
                        ELSE @[k]]],
          err |-> NoErr]

\* ApplyProps that does not leave out the keys of the declared objects.
ApplyProps_KeepsUsedKeys(h, obj, objects, config) ==
    IF isclass(obj) \/ Falsy(obj) THEN [h |-> h, err |-> NoErr]
    ELSE IF config.tag # "dict" THEN [h |-> h, err |-> "AttributeError"]
    ELSE SetAttrs(h, obj, config.m)

\* Lines 231-244 of apply_config: the properties of obj itself. No object of
\* the graph defines the optional hook apply_config_properties.
ApplyProps(h, obj, objects, config) ==
    IF isclass(obj) \/ Falsy(obj) THEN [h |-> h, err |-> NoErr]
    ELSE IF config.tag # "dict" THEN [h |-> h, err |-> "AttributeError"]
    ELSE LET used_keys == IF objects = None \/ objects.items = <<>> THEN {}
                          ELSE Keys(objects)
             config_values == [k \in DOMAIN config.m \ used_keys |-> config.m[k]]
         IN SetAttrs(h, obj, config_values)

apply_config(h, obj, config, set_props_only) ==
    LET objects == DeclaredObjects(obj)
        declared == IF ~set_props_only /\ objects # None
                    THEN apply_config_to_declared_objects(h, obj, objects.items,
                                                          config, 1)
                    ELSE [h |-> h, err |-> NoErr]
    IN IF declared.err # NoErr THEN declared
       ELSE IF ~set_props_only /\ objects # None /\ InValues(obj, objects)
       THEN declared
       ELSE ApplyProps(declared.h, obj, objects, config)

\* The config file: missing, unreadable (it exists, opening it fails), empty,
\* malformed (no YAML document) or the YAML text of the document doc.
FileState(kind, doc) == [kind |-> kind, doc |-> doc]

\* open(filename) for reading: the IOError it raises, or NoErr.
OpenRead(f) == IF f.kind \in {"missing", "unreadable"} THEN "IOError" ELSE NoErr

\* yaml_loads(fh.read()): None for an empty text, a YAMLError for a
\* malformed one, else the document.
yaml_loads(f) ==
    CASE f.kind = "empty" -> [v |-> None, err |-> NoErr]
      [] f.kind = "malformed" -> [v |-> None, err |-> "YAMLError"]
      [] OTHER -> [v |-> f.doc, err |-> NoErr]

\* yaml_dumps(data): the YAML text of data.
yaml_dumps(data) == FileState("yaml", data)

\* read_config_from_file without the `opts is None` test.
read_config_from_file_NoNoneTest(f) ==
    LET opened == OpenRead(f)
        loaded == yaml_loads(f)
        body == IF opened # NoErr THEN [v |-> None, err |-> opened] ELSE loaded
    IN IF body.err = "IOError" THEN [v |-> EmptyDict, err |-> NoErr] ELSE body

read_config_from_file(f) ==
    LET opened == OpenRead(f)
        loaded == yaml_loads(f)
        body == IF opened # NoErr THEN [v |-> None, err |-> opened]
                ELSE IF loaded.err # NoErr THEN loaded
                ELSE IF loaded.v = None THEN [v |-> EmptyDict, err |-> NoErr]
                ELSE loaded
    IN IF body.err = "IOError" THEN [v |-> EmptyDict, err |-> NoErr] ELSE body

\* dump_config(filename, data): the file afterwards, or the IOError.
dump_config(f, data) ==
    IF f.kind = "unreadable" THEN [file |-> f, err |-> "IOError"]
    ELSE [file |-> yaml_dumps(data), err |-> NoErr]

\* ---------------------------------------------------------------- app.py

\* The two config paths considered: the default and one ending in json.
ConfigPaths == {"config.yaml", "config.json"}

\* BaseKivyApp.ensure_config_file: a file that is not found is created in
\* the data directory (which is on the resource path), holding {} when the
\* name ends with json. The file afterwards.
ensure_config_file(f, filename) ==
    IF f.kind = "missing"
    THEN IF filename = "config.json" THEN FileState("yaml", EmptyDict)
         ELSE FileState("empty", None)
    ELSE f

\* x[key] for a string key.
GetItem(x, key) ==
    CASE x.tag = "dict" ->
            IF key \in DOMAIN x.m THEN [v |-> x.m[key], err |-> NoErr]
            ELSE [v |-> None, err |-> "KeyError"]
      [] OTHER -> [v |-> None, err |-> "TypeError"]

\* BaseKivyApp.load_app_settings_from_file, as the heap, app_settings and
\* file afterwards and the exception that escaped.
load_app_settings_from_file(h, settings, f, path) ==
    LET f1 == ensure_config_file(f, path)
        r == read_config_from_file(f1)
        sub == GetItem(r.v, "app")
        a == apply_config(h, Obj("app"), sub.v, FALSE)
    IN IF r.err # NoErr
       THEN [h |-> h, settings |-> settings, file |-> f1, err |-> r.err]
       ELSE IF sub.err # NoErr
       THEN [h |-> h, settings |-> r.v, file |-> f1, err |-> sub.err]
       ELSE [h |-> a.h, settings |-> r.v, file |-> f1, err |-> a.err]

\* BaseKivyApp.apply_app_settings
apply_app_settings(h, settings) == apply_config(h, Obj("app"), settings, FALSE)

\* BaseKivyApp.dump_app_settings_to_file: the file afterwards and the error.
dump_app_settings_to_file(h, f, path) ==
    LET f1 == ensure_config_file(f, path)
        r == read_config_from_object(h, Obj("app"), FALSE)
    IN IF r.err # NoErr THEN [file |-> f1, err |-> r.err]
       ELSE dump_config(f1, r.v)

\* ------------------------------------------- the configuration state machine

\* The record of the last call: its name, the object and config (or file)
\* it was given, the exception that escaped it and the value it returned.
Call(op, target, config, err, ret) ==
    [op |-> op, target |-> target, config |-> config, err |-> err, ret |-> ret]

\* The value every property has after construction.
DefaultAttrs(c) == [a \in ClassAttrs(c) |-> Val(0)]

\* A name that is no declared property of any class.
Bogus == "bogus"

Map1(k, v) == [x \in {k} |-> v]
Map2(k1, v1, k2, v2) == [x \in {k1, k2} |-> IF x = k1 THEN v1 ELSE v2]

\* Complete config trees of the graphs below leaf1, leaf2, root, top,
\* lholder, dholder and app.
LeafConfigs == FullDicts({"gain", "offset"})
BaseLeafConfigs == FullDicts({"offset"})
RootConfigs ==
    {Dict(Map2("child", c, "rate", Val(n))) : c \in LeafConfigs, n \in Values}
TopConfigs ==
    {Dict(Map2("main", r, "aux", b)) : r \in RootConfigs, b \in BaseLeafConfigs}
ListHolderConfigs ==
    {Dict(Map1("items", List(<<Dict(Map2("gain", Val(n), "offset", Val(1))),
                               Dict(Map1("offset", Val(1)))>>))) : n \in Values}
DictHolderConfigs ==
    {Dict(Map1("chans", Dict(Map2("a", Dict(Map1("offset", Val(1))),
                                  "b", Dict(Map1("rate", Val(n))))))) : n \in Values}
AppConfigs == {Dict(Map1("app", d)) : d \in PropDicts({"inspect"})}

\* The documents of the config file: the 'app' section holds inspect, an
\* undeclared name or both.
AppSections ==
    PropDicts({"inspect"})
    \cup {Dict(Map1(Bogus, Val(1))), Dict(Map2("inspect", Val(1), Bogus, Val(1)))}
FileDocs ==
    {Dict(Map1("app", d)) : d \in AppSections}
    \cup {EmptyDict, Val(1), Dict(Map1("other", EmptyDict))}

\* The (object, config) pairs apply_config is called with.
ApplyInputs ==
    ({Obj("leaf1")} \X (PropDicts({"gain", "offset"})
                        \cup {Dict(Map2("gain", Val(0), Bogus, Val(1))), None}))
    \cup ({Obj("root")} \X (RootConfigs \cup PropDicts({"rate"})
                            \cup {Dict(Map1("child", Dict(Map1("gain", Val(MaxVal)))))}))
    \cup ({Obj("top")} \X (TopConfigs
                           \cup {Dict(Map2("main", Val(1), "aux", b)) :
                                    b \in BaseLeafConfigs}
                           \cup {Dict(Map1("aux", b)) : b \in BaseLeafConfigs}))
    \cup ({Obj("lholder")} \X (ListHolderConfigs \cup {EmptyDict}))
    \cup ({Obj("dholder")} \X (DictHolderConfigs \cup {EmptyDict}))
    \cup ({Obj("app")} \X (AppConfigs \cup PropDicts({"inspect"}) \cup {Val(1)}))
    \cup ({Cls("BaseKivyApp")} \X (AppConfigs \cup PropDicts({"inspect"})))
    \cup ({Cls("Leaf")} \X LeafConfigs)

\* The objects read_config_from_object is called with.
ReadInputs ==
    {Obj(o) : o \in Instances} \cup {Cls("BaseKivyApp"), Cls("Leaf"), Cls("Broken")}

\* The roots of the graphs whose children are single instances.
SingleRoots == {Obj("app"), Obj("top"), Obj("root"), Obj("leaf1"), Obj("leaf2")}

\* The states an edit from outside the app leaves the config file in.
FileStates ==
    {FileState(k, None) : k \in {"missing", "unreadable", "empty", "malformed"}}
    \cup {FileState("yaml", d) : d \in FileDocs}

InitConfig ==
    /\ heap = [x \in Instances \cup Classes |->
                  IF x \in Instances THEN DefaultAttrs(ClassOf(x))
                  ELSE DefaultAttrs(x)]
    /\ app_settings = EmptyDict
    /\ json_config_path = "config.yaml"
    /\ file = ensure_config_file(FileState("missing", None), json_config_path)
    /\ last = Call("init", None, None, NoErr, None)

\* apply_config(obj, config)
ApplyConfig ==
    \E in \in ApplyInputs :
        LET r == apply_config(heap, in[1], in[2], FALSE)
        IN /\ heap' = r.h
           /\ last' = Call("apply_config", in[1], in[2], r.err, None)
           /\ UNCHANGED <<app_settings, file, json_config_path, error_vars, ui_vars>>

\* read_config_from_object(obj)
ReadConfigFromObject ==
    \E obj \in ReadInputs :
        LET r == read_config_from_object(heap, obj, FALSE)
        IN /\ last' = Call("read_config_from_object", obj, None, r.err, r.v)
           /\ UNCHANGED <<heap, app_settings, file, json_config_path, error_vars, ui_vars>>

\* apply_config(obj, read_config_from_object(obj))
ReapplyOwnConfig ==
    \E obj \in SingleRoots :
        LET c == read_config_from_object(heap, obj, FALSE)
            r == apply_config(heap, obj, c.v, FALSE)
        IN /\ c.err = NoErr
           /\ heap' = r.h
           /\ last' = Call("reapply", obj, None, r.err, None)
           /\ UNCHANGED <<app_settings, file, json_config_path, error_vars, ui_vars>>

\* The settings UI assigns a declared property of an instance.
SetProperty ==
    \E o \in Instances :
        \E k \in DOMAIN heap[o] \ {Bogus} :
            \E n \in PropValues(k) :
                /\ heap' = [heap EXCEPT ![o][k] = Val(n)]
                /\ last' = Call("setattr", None, None, NoErr, None)
                /\ UNCHANGED <<app_settings, file, json_config_path, error_vars, ui_vars>>

Next ==
    \/ ApplyConfig
    \/ ReadConfigFromObject
    \/ ReapplyOwnConfig
    \/ SetProperty

\* ------------------------------------------------ the app's settings file

\* read_config_from_file(filename)
ReadConfigFromFile ==
    LET r == read_config_from_file(file)
    IN /\ last' = Call("read_config_from_file", None, file, r.err, r.v)
       /\ UNCHANGED <<heap, app_settings, file, json_config_path, error_vars, ui_vars>>

\* app.load_app_settings_from_file()
LoadAppSettingsFromFile ==
    LET r == load_app_settings_from_file(heap, app_settings, file, json_config_path)
    IN /\ heap' = r.h
       /\ app_settings' = r.settings
       /\ file' = r.file
       /\ last' = Call("load_app_settings_from_file", Obj("app"), file, r.err, None)
       /\ UNCHANGED <<json_config_path, error_vars, ui_vars>>

\* app.apply_app_settings()
ApplyAppSettings ==
    LET r == apply_app_settings(heap, app_settings)
    IN /\ heap' = r.h
       /\ last' = Call("apply_app_settings", Obj("app"), app_settings, r.err, None)
       /\ UNCHANGED <<app_settings, file, json_config_path, error_vars, ui_vars>>

\* app.dump_app_settings_to_file()
DumpAppSettingsToFile ==
    LET r == dump_app_settings_to_file(heap, file, json_config_path)
    IN /\ file' = r.file
       /\ last' = Call("dump_app_settings_to_file", Obj("app"), file, r.err, None)
       /\ UNCHANGED <<heap, app_settings, json_config_path, error_vars, ui_vars>>

\* The settings UI toggles app.inspect.
SetInspect ==
    \E n \in PropValues("inspect") :
        /\ heap' = [heap EXCEPT !["app"]["inspect"] = Val(n)]
        /\ last' = Call("setattr", None, None, NoErr, None)
        /\ UNCHANGED <<app_settings, file, json_config_path, error_vars, ui_vars>>

\* The user edits, replaces or removes the config file.
EditFile ==
    \E f \in FileStates :
        /\ file' = f
        /\ last' = Call("edit", None, None, NoErr, None)
        /\ UNCHANGED <<heap, app_settings, json_config_path, error_vars, ui_vars>>

\* json_config_path is set to another path, whose file is in any state.
SetConfigPath ==
    \E path \in ConfigPaths, f \in FileStates :
        /\ json_config_path' = path
        /\ file' = f
        /\ last' = Call("setattr", None, None, NoErr, None)
        /\ UNCHANGED <<heap, app_settings, error_vars, ui_vars>>

NextSettings ==
    \/ SetConfigPath
    \/ ReadConfigFromFile
    \/ LoadAppSettingsFromFile
    \/ ApplyAppSettings
    \/ DumpAppSettingsToFile
    \/ SetInspect
    \/ EditFile

\* ------------------------------------------------- exception reporting

\* Wrapper calls per behaviour, and the exceptions a wrapped callable raises.
MaxCalls == 3
Excs == {"e1", "e2"}

\* The state the reporting functions act on.
ErrState(r, ind, clk, lg) ==
    [running |-> r, error_indicator |-> ind, clock |-> clk, logged |-> lg]

\* A record written by Logger.<level>(msg) or logging.<level>(msg).
LogLine(logger, level, msg) == [logger |-> logger, level |-> level, msg |-> msg]

\* ErrorIndicatorBehavior.levels
LevelRank(level) ==
    CASE level = "error" -> 0
      [] level = "warning" -> 1
      [] level = "info" -> 2

\* A new error indicator: count 0, _level 'ok', the animation not started,
\* no items in its container and no on_log_event dispatched.
NewIndicator ==
    [count |-> 0, level |-> "ok", anim |-> FALSE, data |-> <<>>, events |-> 0]

\* add_item that counts the item before it tests the level.
add_item_CountsFirst(ind, text, level) ==
    IF level \notin {"error", "warning", "info"}
    THEN [ind |-> [ind EXCEPT !.count = @ + 1], err |-> "ValueError"]
    ELSE LET notify == ind.level = "ok" /\ LevelRank(level) < LevelRank("info")
             raise == ind.level # "ok" /\ LevelRank(level) < LevelRank(ind.level)
         IN [ind |-> [count |-> ind.count + 1,
                      level |-> IF notify \/ raise THEN level ELSE ind.level,
                      anim |-> ind.anim \/ notify,
                      data |-> Append(ind.data,
                                      [text |-> text, icon_name |-> level]),
                      events |-> ind.events + 1],
             err |-> NoErr]

\* ErrorIndicatorBehavior.add_item(text, level): the indicator afterwards
\* and the exception raised.
add_item(ind, text, level) ==
    IF level \notin {"error", "warning", "info"}
    THEN [ind |-> ind, err |-> "ValueError"]
    ELSE LET notify == ind.level = "ok" /\ LevelRank(level) < LevelRank("info")
             raise == ind.level # "ok" /\ LevelRank(level) < LevelRank(ind.level)
         IN [ind |-> [count |-> ind.count + 1,
                      level |-> IF notify \/ raise THEN level ELSE ind.level,
                      anim |-> ind.anim \/ notify,
                      data |-> Append(ind.data,
                                      [text |-> text, icon_name |-> level]),
                      events |-> ind.events + 1],
             err |-> NoErr]

\* '{}'.format(msg): the text of the message.
Format(msg) == [str |-> msg]

\* The log lines handle_exception writes.
HandleLines(msg, exc_info, level) ==
    IF exc_info = "str"
    THEN <<LogLine("Logger", "error", msg),
           LogLine("Logger", "error", "exc_info")>>
    ELSE IF level \in {"error", "exception"}
    THEN IF exc_info # "none"
         THEN <<LogLine("Logger", "error", msg),
                LogLine("Logger", "error", "traceback")>>
         ELSE <<LogLine("Logger", "error", msg)>>
    ELSE <<LogLine("Logger", level, msg)>>

\* handle_exception without the test of error_indicator: add_item is called
\* on whatever error_indicator holds.
handle_exception_NoIndicatorTest(st, msg, exc_info, level) ==
    LET lg == st.logged \o HandleLines(msg, exc_info, level)
    IN IF st.error_indicator = None
       THEN [st |-> [st EXCEPT !.logged = lg], err |-> "AttributeError"]
       ELSE LET added == add_item(st.error_indicator, Format(msg), "error")
            IN [st |-> [st EXCEPT !.logged = lg,
                                  !.error_indicator = added.ind],
                err |-> added.err]

\* BaseKivyApp.handle_exception(msg, exc_info, level); exc_info is "none",
\* "str" (a formatted trace) or "tuple" (a sys.exc_info() triple).
handle_exception(st, msg, exc_info, level) ==
    LET lg == st.logged \o HandleLines(msg, exc_info, level)
        added == add_item(st.error_indicator, Format(msg), "error")
    IN IF exc_info # "str" /\ level \notin
              {"error", "exception", "warning", "info", "debug", "critical"}
       THEN [st |-> st, err |-> "AttributeError"]
       ELSE IF st.error_indicator = None
       THEN [st |-> [st EXCEPT !.logged = lg], err |-> NoErr]
       ELSE [st |-> [st EXCEPT !.logged = lg, !.error_indicator = added.ind],
             err |-> added.err]

\* The closure report_exception of report_exception_in_app.
report_exception(st, e, exc_info) ==
    IF st.running
    THEN handle_exception(st, e, IF exc_info # "none" THEN exc_info ELSE "tuple",
                          "error")
    ELSE [st |-> [st EXCEPT !.logged =
                     IF exc_info = "none"
                     THEN Append(@, LogLine("logging", "error", e))
                     ELSE @ \o <<LogLine("logging", "error", e),
                                 LogLine("logging", "error", exc_info)>>],
          err |-> NoErr]

\* report_exception_in_app that ignores threaded and reports at once.
report_exception_in_app_Unthreaded(st, e, exc_info, threaded) ==
    report_exception(st, e, exc_info)

report_exception_in_app(st, e, exc_info, threaded) ==
    IF threaded
    THEN [st |-> [st EXCEPT !.clock = Append(@, [e |-> e, exc_info |-> exc_info])],
          err |-> NoErr]
    ELSE report_exception(st, e, exc_info)

\* What a wrapped callable does when called: return a value, raise an
\* Exception, or raise a BaseException that is no Exception.
Behaviours ==
    {[kind |-> "return", v |-> n, e |-> "none"] : n \in Values}
    \cup {[kind |-> k, v |-> 0, e |-> e] :
             k \in {"raise", "raise_base"}, e \in Excs}

\* safe_func that reports the exception and then lets it escape.
app_error_Reraises(st, beh, threaded) ==
    IF beh.kind = "return"
    THEN [st |-> st, ret |-> Val(beh.v), raised |-> NoErr, reports |-> 0]
    ELSE IF beh.kind = "raise_base"
    THEN [st |-> st, ret |-> None, raised |-> beh.e, reports |-> 0]
    ELSE LET r == report_exception_in_app(st, beh.e, "str", threaded)
         IN [st |-> r.st, ret |-> None, raised |-> beh.e, reports |-> 1]

\* safe_func of app_error(app_error_func, threaded): the state afterwards,
\* the value returned, the exception that escaped and the number of calls of
\* report_exception_in_app.
app_error(st, beh, threaded) ==
    IF beh.kind = "return"
    THEN [st |-> st, ret |-> Val(beh.v), raised |-> NoErr, reports |-> 0]
    ELSE IF beh.kind = "raise_base"
    THEN [st |-> st, ret |-> None, raised |-> beh.e, reports |-> 0]
    ELSE LET r == report_exception_in_app(st, beh.e, "str", threaded)
         IN [st |-> r.st, ret |-> None, raised |-> r.err, reports |-> 1]

\* safe_func of app_error_async, awaited to completion.
app_error_async(st, beh, threaded) ==
    IF beh.kind = "return"
    THEN [st |-> st, ret |-> Val(beh.v), raised |-> NoErr, reports |-> 0]
    ELSE IF beh.kind = "raise_base"
    THEN [st |-> st, ret |-> None, raised |-> beh.e, reports |-> 0]
    ELSE LET r == report_exception_in_app(st, beh.e, "str", threaded)
         IN [st |-> r.st, ret |-> None, raised |-> r.err, reports |-> 1]

CurrentErrState == ErrState(running, error_indicator, clock, logged)

\* The record of the last wrapper call; n counts the calls.
WrapperCall(n, fn, beh, threaded, r) ==
    [n |-> n, fn |-> fn, beh |-> beh, threaded |-> threaded,
     ret |-> r.ret, raised |-> r.raised, reports |-> r.reports]

InitError ==
    /\ running = FALSE
    /\ error_indicator = None
    /\ clock = <<>>
    /\ logged = <<>>
    /\ calls = [n |-> 0, fn |-> "none", beh |-> None, threaded |-> FALSE,
                ret |-> None, raised |-> NoErr, reports |-> 0]

SetErrState(st) ==
    /\ running' = st.running
    /\ error_indicator' = st.error_indicator
    /\ clock' = st.clock
    /\ logged' = st.logged

\* A callable wrapped by app_error is called.
CallAppError ==
    \E beh \in Behaviours, threaded \in BOOLEAN :
        LET r == app_error(CurrentErrState, beh, threaded)
        IN /\ calls.n < MaxCalls
           /\ SetErrState(r.st)
           /\ calls' = WrapperCall(calls.n + 1, "app_error", beh, threaded, r)
           /\ UNCHANGED <<config_vars, ui_vars>>

\* A coroutine wrapped by app_error_async is awaited.
CallAppErrorAsync ==
    \E beh \in Behaviours, threaded \in BOOLEAN :
        LET r == app_error_async(CurrentErrState, beh, threaded)
        IN /\ calls.n < MaxCalls
           /\ SetErrState(r.st)
           /\ calls' = WrapperCall(calls.n + 1, "app_error_async", beh, threaded, r)
           /\ UNCHANGED <<config_vars, ui_vars>>

\* The exc_info arguments: None, a formatted trace, a sys.exc_info() triple.
ExcInfos == {"none", "str", "tuple"}
\* The level arguments of handle_exception and of add_item.
HandleLevels == {"error", "exception", "warning", "verbose"}
ItemLevels == {"error", "warning", "info", "debug"}

\* The record of a direct call of fn with arguments args.
DirectCall(n, fn, args, threaded, err, reports) ==
    [n |-> n, fn |-> fn, beh |-> args, threaded |-> threaded,
     ret |-> None, raised |-> err, reports |-> reports]

\* report_exception_in_app(e, exc_info, threaded) is called.
ReportExceptionInApp ==
    \E e \in Excs, exc_info \in ExcInfos, threaded \in BOOLEAN :
        LET r == report_exception_in_app(CurrentErrState, e, exc_info, threaded)
        IN /\ calls.n < MaxCalls
           /\ SetErrState(r.st)
           /\ calls' = DirectCall(calls.n + 1, "report_exception_in_app",
                                  [kind |-> "report", e |-> e,
                                   exc_info |-> exc_info],
                                  threaded, r.err, 1)
           /\ UNCHANGED <<config_vars, ui_vars>>

\* app.handle_exception(msg, exc_info, level) is called.
HandleException ==
    \E msg \in Excs, exc_info \in ExcInfos, level \in HandleLevels :
        LET r == handle_exception(CurrentErrState, msg, exc_info, level)
        IN /\ calls.n < MaxCalls
           /\ SetErrState(r.st)
           /\ calls' = DirectCall(calls.n + 1, "handle_exception",
                                  [kind |-> "handle", e |-> msg,
                                   exc_info |-> exc_info, level |-> level],
                                  FALSE, r.err, 0)
           /\ UNCHANGED <<config_vars, ui_vars>>

\* error_indicator.add_item(text, level) is called.
AddItem ==
    \E text \in Excs, level \in ItemLevels :
        LET r == add_item(error_indicator, text, level)
        IN /\ calls.n < MaxCalls
           /\ error_indicator # None
           /\ error_indicator' = r.ind
           /\ calls' = DirectCall(calls.n + 1, "add_item",
                                  [kind |-> "add", e |-> text, level |-> level],
                                  FALSE, r.err, 0)
           /\ UNCHANGED <<running, clock, logged, config_vars, ui_vars>>

\* The UI thread's clock runs the oldest scheduled callback.
ClockTick ==
    /\ clock # <<>>
    /\ LET r == report_exception([CurrentErrState EXCEPT !.clock = Tail(@)],
                                 Head(clock).e, Head(clock).exc_info)
       IN SetErrState(r.st)
    /\ UNCHANGED <<calls, config_vars, ui_vars>>

\* run_app: the app starts running / has stopped.
StartApp ==
    /\ ~running
    /\ running' = TRUE
    /\ UNCHANGED <<error_indicator, clock, logged, calls, config_vars, ui_vars>>

StopApp ==
    /\ running
    /\ running' = FALSE
    /\ UNCHANGED <<error_indicator, clock, logged, calls, config_vars, ui_vars>>

\* The app GUI sets error_indicator to its indicator widget.
SetErrorIndicator ==
    /\ error_indicator = None
    /\ error_indicator' = NewIndicator
    /\ UNCHANGED <<running, clock, logged, calls, config_vars, ui_vars>>

NextError ==
    \/ CallAppError
    \/ CallAppErrorAsync
    \/ ReportExceptionInApp
    \/ ClockTick
    \/ StartApp
    \/ StopApp
    \/ SetErrorIndicator

\* The handler and the indicator called directly.
NextIndicator ==
    \/ HandleException
    \/ AddItem
    \/ SetErrorIndicator

\* ------------------------------------------------------------- widgets

\* ------------------------------------------- app start-up and closing

\* BaseKivyApp._ini_config_filename and the option init_config keeps in it.
IniFile == "config.ini"
PathOption == "json_config_path"

\* A configparser.ConfigParser or the content of an INI file: a function
\* from section names to functions from option names to values.
NewParser == <<>>
has_section(p, sec) == sec \in DOMAIN p
add_section(p, sec) == [x \in DOMAIN p \cup {sec} |-> IF x = sec THEN <<>> ELSE p[x]]
has_option(p, sec, opt) == sec \in DOMAIN p /\ opt \in DOMAIN p[sec]
parser_set(p, sec, opt, v) ==
    [p EXCEPT ![sec] = [o \in DOMAIN @ \cup {opt} |-> IF o = opt THEN v ELSE @[o]]]
parser_get(p, sec, opt) == p[sec][opt]

\* The sections and options of doc added to those of the parser; an option
\* that both have takes the value in doc.
ReadSections(p, doc) ==
    [x \in DOMAIN p \cup DOMAIN doc |->
        IF x \notin DOMAIN doc THEN p[x]
        ELSE IF x \notin DOMAIN p THEN doc[x]
        ELSE [o \in DOMAIN p[x] \cup DOMAIN doc[x] |->
                 IF o \in DOMAIN doc[x] THEN doc[x][o] ELSE p[x][o]]]

\* parser.read that keeps the parser's own value of an option the file has.
parser_read_KeepsOwn(p, f) ==
    CASE f.kind = "ini" -> [p |-> ReadSections(f.doc, p), err |-> NoErr]
      [] f.kind = "malformed" -> [p |-> p, err |-> "ParsingError"]
      [] OTHER -> [p |-> p, err |-> NoErr]

\* parser.read(filename): the parser afterwards and the exception raised.
\* A file that cannot be opened is skipped; text that is no INI document
\* raises a ParsingError.
parser_read(p, f) ==
    CASE f.kind = "ini" -> [p |-> ReadSections(p, f.doc), err |-> NoErr]
      [] f.kind = "malformed" -> [p |-> p, err |-> "ParsingError"]
      [] OTHER -> [p |-> p, err |-> NoErr]

\* parser.write(fh) into the file opened for writing.
parser_write(p) == FileState("ini", p)

\* The data directory and the app's json_config_path; op and err record
\* the last operation and the exception that escaped it.
Disk(files, path, op, err) ==
    [files |-> files, path |-> path, op |-> op, err |-> err]

\* BaseKivyApp.init_config
init_config(d) ==
    LET p0 == NewParser
        p1 == IF ~has_section(p0, "App") THEN add_section(p0, "App") ELSE p0
        p2 == IF ~has_option(p1, "App", PathOption)
              THEN parser_set(p1, "App", PathOption, d.path) ELSE p1
        ini == ensure_config_file(d.files[IniFile], IniFile)
        rd == parser_read(p2, ini)
        path == parser_get(rd.p, "App", PathOption)
    IN IF rd.err # NoErr
       THEN Disk([d.files EXCEPT ![IniFile] = ini], d.path, "init_config", rd.err)
       ELSE Disk([f \in DOMAIN d.files |->
                     IF f = IniFile THEN parser_write(rd.p)
                     ELSE IF f = path THEN ensure_config_file(d.files[f], f)
                     ELSE d.files[f]],
                 path, "init_config", NoErr)

\* The INI documents an edit leaves in config.ini: with or without the
\* section App, the path option and other sections and options.
AppSectionsOfIni ==
    {<<>>, Map1("theme", "dark")}
    \cup {Map1(PathOption, path) : path \in ConfigPaths}
    \cup {Map2(PathOption, path, "theme", "dark") : path \in ConfigPaths}
IniDocs ==
    {Map1("App", a) : a \in AppSectionsOfIni}
    \cup {Map1("Other", Map1("x", "1"))}
    \cup {Map2("App", a, "Other", Map1("x", "1")) : a \in AppSectionsOfIni}
IniStates ==
    {FileState(k, None) : k \in {"missing", "empty", "malformed"}}
    \cup {FileState("ini", d) : d \in IniDocs}

\* The close popup (None, or whether it is open and its text), the close
\* message, what check_close answers, and the last call of _ask_close: its
\* return value and the number of times it opened the popup.
ClosePopup(open, text) == [open |-> open, text |-> text]
CloseMessages == {"", "Cannot close currently", "Saving"}

\* BaseKivyApp.check_close; an app class overrides it, can_close is what
\* it answers now.
check_close(w) == w.can_close

\* _ask_close that vetoes only when it can show the popup.
_ask_close_VetoNeedsPopup(w) ==
    IF ~check_close(w) /\ w.message # "" /\ w.popup # None
    THEN [w EXCEPT !.popup = [@ EXCEPT !.open = TRUE],
                   !.op = "_ask_close", !.ret = TRUE, !.opened = 1]
    ELSE [w EXCEPT !.op = "_ask_close", !.ret = FALSE, !.opened = 0]

\* BaseKivyApp._ask_close
_ask_close(w) ==
    IF ~check_close(w)
    THEN IF w.message # "" /\ w.popup # None
         THEN [w EXCEPT !.popup = [@ EXCEPT !.open = TRUE],
                        !.op = "_ask_close", !.ret = TRUE, !.opened = 1]
         ELSE [w EXCEPT !.op = "_ask_close", !.ret = TRUE, !.opened = 0]
    ELSE [w EXCEPT !.op = "_ask_close", !.ret = FALSE, !.opened = 0]

\* BaseKivyApp.on__close_message
on__close_message(w) ==
    IF w.popup # None THEN [w EXCEPT !.popup = [@ EXCEPT !.text = w.message]]
    ELSE w

\* After BaseKivyApp.__init__ in an empty data directory: the close popup
\* is built and shows the close message, config.ini and config.yaml exist.
InitApp ==
    /\ window = [popup |-> ClosePopup(FALSE, "Cannot close currently"),
                 message |-> "Cannot close currently", can_close |-> TRUE,
                 op |-> "init", ret |-> FALSE, opened |-> 0]
    /\ disk = init_config(Disk([f \in {IniFile} \cup ConfigPaths |->
                                   FileState("missing", None)],
                               "config.yaml", "init", NoErr))

\* The window asks to close.
AskClose ==
    /\ window' = _ask_close(window)
    /\ UNCHANGED <<disk, timeline, config_vars, error_vars>>

\* What check_close answers changes.
SetCanClose ==
    /\ window' = [window EXCEPT !.can_close = ~@, !.op = "set"]
    /\ UNCHANGED <<disk, timeline, config_vars, error_vars>>

\* _close_message is set.
SetCloseMessage ==
    \E m \in CloseMessages :
        /\ window' = on__close_message([window EXCEPT !.message = m, !.op = "set"])
        /\ UNCHANGED <<disk, timeline, config_vars, error_vars>>

\* The user dismisses the open popup.
DismissPopup ==
    /\ window.popup # None
    /\ window.popup.open
    /\ window' = [window EXCEPT !.popup = [@ EXCEPT !.open = FALSE], !.op = "set"]
    /\ UNCHANGED <<disk, timeline, config_vars, error_vars>>

\* An app class that builds no close popup: _close_popup is None.
RemoveClosePopup ==
    /\ window.popup # None
    /\ window' = [window EXCEPT !.popup = None, !.op = "set"]
    /\ UNCHANGED <<disk, timeline, config_vars, error_vars>>

\* The app starts again in the same data directory: init_config runs.
StartUp ==
    /\ disk' = init_config(disk)
    /\ UNCHANGED <<window, timeline, config_vars, error_vars>>

\* config.ini is edited, replaced or removed from outside the app.
EditIni ==
    \E f \in IniStates :
        /\ disk' = [disk EXCEPT !.files[IniFile] = f, !.op = "edit", !.err = NoErr]
        /\ UNCHANGED <<window, timeline, config_vars, error_vars>>

\* A config file is removed or replaced from outside the app.
EditConfigFile ==
    \E path \in ConfigPaths, k \in {"missing", "empty", "malformed"} :
        /\ disk' = [disk EXCEPT !.files[path] = FileState(k, None),
                                !.op = "edit", !.err = NoErr]
        /\ UNCHANGED <<window, timeline, config_vars, error_vars>>

\* The app sets its json_config_path property.
SetJsonConfigPath ==
    \E path \in ConfigPaths :
        /\ disk' = [disk EXCEPT !.path = path, !.op = "set", !.err = NoErr]
        /\ UNCHANGED <<window, timeline, config_vars, error_vars>>

NextApp ==
    \/ AskClose
    \/ SetCanClose
    \/ SetCloseMessage
    \/ DismissPopup
    \/ RemoveClosePopup
    \/ StartUp
    \/ EditIni
    \/ EditConfigFile
    \/ SetJsonConfigPath

\* ------------------------------------------------------------ TimeLine

\* The clock runs to MaxTime.
MaxTime == 1

\* The elapsed time set_active_slice gives a slice that is done (at least).
DoneTime == 10000

\* Slice names given by callers, a name no slice has, and durations. Names
\* are unique, so there are at most as many slice widgets as names.
SliceNames == {"a", "b"}
NoSuchName == "zz"
Durations == {0, 20000}
WidgetIds == 1..Cardinality(SliceNames)

Max(a, b) == IF a >= b THEN a ELSE b
Min(a, b) == IF a <= b THEN a ELSE b

\* Python lists as sequences; indices are 0-based as in the code.
Reversed(l) == [i \in 1..Len(l) |-> l[Len(l) + 1 - i]]
InsertAt(l, i, x) ==
    LET k == Min(i, Len(l))
    IN SubSeq(l, 1, k) \o <<x>> \o SubSeq(l, k + 1, Len(l))
RemoveAt(l, i) == SubSeq(l, 1, i) \o SubSeq(l, i + 2, Len(l))
RemoveItem(l, x) == SelectSeq(l, LAMBDA y : y # x)

\* list.index(x): the first index of x, or ValueError.
list_index(l, x) ==
    IF \E i \in 1..Len(l) : l[i] = x
    THEN [i |-> (CHOOSE i \in 1..Len(l) :
                    l[i] = x /\ \A j \in 1..(i - 1) : l[j] # x) - 1,
          err |-> NoErr]
    ELSE [i |-> 0, err |-> "ValueError"]

\* list.insert(index, object): index must be an integer.
list_insert(l, index, object) ==
    IF index.tag # "val"
    THEN [l |-> l, err |-> "TypeError"]
    ELSE [l |-> InsertAt(l, index.v, object.id), err |-> NoErr]

\* pretty_time(seconds): hours, minutes, seconds and tenths.
pretty_time(seconds) ==
    LET tenths == seconds * 10
        secs == tenths \div 10
        mins == secs \div 60
    IN [h |-> mins \div 60, m |-> mins % 60, s |-> secs % 60, ms |-> tenths % 10]

\* TimeLineSlice(duration=duration, name=name, text=name)
TimeLineSlice(name, duration) ==
    [name |-> name, duration |-> duration, elapsed_t |-> 0, text |-> name,
     color |-> "even"]

\* A TimeLine: w holds the slice widgets by identity (None: no such widget),
\* slices and slice_names are the properties, children is box.children
\* (the widget displayed last comes first), start_t is _start_t and now the
\* value of perf_counter(). op and err record the last call and the
\* exception that escaped it; flip changes with every call.
NewTimeLine ==
    [w |-> [i \in WidgetIds |-> None], slices |-> <<>>, slice_names |-> <<>>,
     children |-> <<>>, current_slice |-> None, timer |-> pretty_time(0),
     text |-> "", start_t |-> 0, now |-> 0,
     op |-> "init", err |-> NoErr, flip |-> FALSE]

\* The call op has ended in state t, with exception err.
Returned(t, op, err) == [t EXCEPT !.op = op, !.err = err, !.flip = ~@]

\* The identity of a widget created now.
NewId(t) == CHOOSE i \in WidgetIds :
                /\ t.w[i] = None
                /\ \A j \in 1..(i - 1) : t.w[j] # None

\* Widget.add_widget(widget, index) on the box.
add_widget(children, id, index) ==
    IF index = 0 \/ Len(children) = 0 THEN <<id>> \o children
    ELSE InsertAt(children, index, id)

\* _update_attrs that takes box.children as the displayed order.
_update_attrs_NotReversed(t) ==
    LET widgets == t.children
    IN [t EXCEPT !.slice_names = [i \in 1..Len(widgets) |-> t.w[widgets[i]].name],
                 !.w = [id \in DOMAIN t.w |->
                           IF \E i \in 1..Len(widgets) : widgets[i] = id
                           THEN [t.w[id] EXCEPT !.color =
                                    IF (list_index(widgets, id).i) % 2 = 1
                                    THEN "odd" ELSE "even"]
                           ELSE t.w[id]]]

\* TimeLine._update_attrs
_update_attrs(t) ==
    LET widgets == Reversed(t.children)
    IN [t EXCEPT !.slice_names = [i \in 1..Len(widgets) |-> t.w[widgets[i]].name],
                 !.w = [id \in DOMAIN t.w |->
                           IF \E i \in 1..Len(widgets) : widgets[i] = id
                           THEN [t.w[id] EXCEPT !.color =
                                    IF (list_index(widgets, id).i) % 2 = 1
                                    THEN "odd" ELSE "even"]
                           ELSE t.w[id]]]

\* TimeLine.add_slice(name, before, duration); before is None or Val(name).
add_slice(t, name, before, duration) ==
    LET id == NewId(t)
        found == list_index(t.slice_names, before.v)
        inserted == list_insert(t.slices, Obj(id), Val(found.i))
        made == [t EXCEPT !.w[id] = TimeLineSlice(name, duration)]
    IN IF before # None
       THEN IF found.err # NoErr THEN Returned(t, "add_slice", found.err)
            ELSE IF inserted.err # NoErr
            THEN Returned(t, "add_slice", inserted.err)
            ELSE Returned(_update_attrs(
                     [made EXCEPT !.slices = inserted.l,
                                  !.children = add_widget(
                                      @, id, Len(t.slices) - found.i)]),
                     "add_slice", NoErr)
       ELSE Returned(_update_attrs(
                [made EXCEPT !.slices = Append(@, id),
                             !.children = add_widget(@, id, 0)]),
                "add_slice", NoErr)

\* TimeLine.remove_slice(name)
remove_slice(t, name) ==
    LET found == list_index(t.slice_names, name)
        id == t.slices[found.i + 1]
    IN IF found.err # NoErr THEN Returned(t, "remove_slice", found.err)
       ELSE IF found.i >= Len(t.slices)
       THEN Returned(t, "remove_slice", "IndexError")
       ELSE Returned(_update_attrs(
                [t EXCEPT !.slices = RemoveAt(@, found.i),
                          !.children = RemoveItem(@, id),
                          !.w[id] = None]),
                "remove_slice", NoErr)

\* TimeLine.clear_slices
clear_slices(t) ==
    Returned([t EXCEPT !.w = [i \in DOMAIN @ |-> None],
                       !.children = <<>>,
                       !.current_slice = None,
                       !.slice_names = <<>>,
                       !.slices = <<>>,
                       !.start_t = t.now],
             "clear_slices", NoErr)

\* TimeLine.update_slice_attrs(current_name, **kwargs)
update_slice_attrs(t, current_name, kwargs) ==
    LET found == list_index(t.slice_names, current_name)
        id == t.slices[found.i + 1]
    IN IF found.err # NoErr THEN Returned(t, "update_slice_attrs", found.err)
       ELSE IF found.i >= Len(t.slices)
       THEN Returned(t, "update_slice_attrs", "IndexError")
       ELSE Returned(_update_attrs(
                [t EXCEPT !.w[id] = [k \in DOMAIN @ |->
                                        IF k \in DOMAIN kwargs THEN kwargs[k]
                                        ELSE @[k]]]),
                "update_slice_attrs", NoErr)

\* The widgets at the 0-based positions lo..hi-1 of slices get elapsed_t
\* max(duration, 10000); MarkReset gives them elapsed_t 0.
MarkDone(t, lo, hi) ==
    [t EXCEPT !.w = [id \in DOMAIN t.w |->
        IF \E i \in (lo + 1)..Min(hi, Len(t.slices)) : t.slices[i] = id
        THEN [t.w[id] EXCEPT !.elapsed_t = Max(t.w[id].duration, DoneTime)]
        ELSE t.w[id]]]
MarkReset(t, lo, hi) ==
    [t EXCEPT !.w = [id \in DOMAIN t.w |->
        IF \E i \in (lo + 1)..Min(hi, Len(t.slices)) : t.slices[i] = id
        THEN [t.w[id] EXCEPT !.elapsed_t = 0]
        ELSE t.w[id]]]

\* set_active_slice that leaves the slices after the named one as they are.
set_active_slice_KeepsLater(t, name, after) ==
    LET found == list_index(t.slice_names, name)
        n == Len(t.slices)
    IN IF found.err = NoErr
       THEN Returned([MarkReset(MarkDone(t, 0, found.i), found.i, found.i + 1)
                         EXCEPT !.current_slice = Val(found.i),
                                !.start_t = t.now],
                     "set_active_slice", NoErr)
       ELSE Returned(t, "set_active_slice", "ValueError")

\* set_active_slice that, for a name no slice has, marks the slices before
\* the one named after as done but not that slice itself.
set_active_slice_AfterExclusive(t, name, after) ==
    LET found == list_index(t.slice_names, name)
        n == Len(t.slices)
        found_after == list_index(t.slice_names, after.v)
        marked ==
            IF after # None
            THEN MarkReset(MarkDone(t, 0, found_after.i), found_after.i, n)
            ELSE IF t.current_slice # None
            THEN MarkDone(t, 0, t.current_slice.v + 1)
            ELSE t
    IN IF found.err = NoErr
       THEN Returned([MarkReset(MarkDone(t, 0, found.i), found.i, n)
                         EXCEPT !.current_slice = Val(found.i),
                                !.start_t = t.now],
                     "set_active_slice", NoErr)
       ELSE IF after # None /\ found_after.err # NoErr
       THEN Returned(t, "set_active_slice", found_after.err)
       ELSE Returned([marked EXCEPT !.current_slice = None,
                                    !.text = name,
                                    !.start_t = t.now],
                     "set_active_slice", NoErr)

\* TimeLine.set_active_slice(name, after); after is None or Val(name).
set_active_slice(t, name, after) ==
    LET found == list_index(t.slice_names, name)
        n == Len(t.slices)
        found_after == list_index(t.slice_names, after.v)
        marked ==
            IF after # None
            THEN MarkReset(MarkDone(t, 0, found_after.i + 1),
                           found_after.i + 1, n)
            ELSE IF t.current_slice # None
            THEN MarkDone(t, 0, t.current_slice.v + 1)
            ELSE t
    IN IF found.err = NoErr
       THEN Returned([MarkReset(MarkDone(t, 0, found.i), found.i, n)
                         EXCEPT !.current_slice = Val(found.i),
                                !.start_t = t.now],
                     "set_active_slice", NoErr)
       ELSE IF after # None /\ found_after.err # NoErr
       THEN Returned(t, "set_active_slice", found_after.err)
       ELSE Returned([marked EXCEPT !.current_slice = None,
                                    !.text = name,
                                    !.start_t = t.now],
                     "set_active_slice", NoErr)

\* TimeLine._update_clock, called by the clock when perf_counter() is t.now.
_update_clock(t) ==
    LET elapsed == t.now - t.start_t
        timed == [t EXCEPT !.timer = pretty_time(elapsed)]
    IN IF t.slices # <<>> /\ t.current_slice # None
       THEN IF t.current_slice.v >= Len(t.slices)
            THEN Returned(timed, "_update_clock", "IndexError")
            ELSE Returned([timed EXCEPT
                              !.w[t.slices[t.current_slice.v + 1]].elapsed_t
                                  = elapsed],
                          "_update_clock", NoErr)
       ELSE Returned(timed, "_update_clock", NoErr)

\* The arguments before and after: None or a name, of a slice or not.
NameArgs == {None} \cup {Val(n) : n \in SliceNames \cup {NoSuchName}}
\* The keyword arguments update_slice_attrs is called with.
KwargsSet ==
    {Map2("name", n, "text", n) : n \in SliceNames}
    \cup {Map1("duration", d) : d \in Durations}

\* The names of the slices on the time line.
NamesInUse == {timeline.slice_names[i] : i \in 1..Len(timeline.slice_names)}

InitTimeLine == timeline = NewTimeLine

AddSlice ==
    \E name \in SliceNames, before \in NameArgs, duration \in Durations :
        /\ name \notin NamesInUse
        /\ timeline' = add_slice(timeline, name, before, duration)
        /\ UNCHANGED <<window, disk, config_vars, error_vars>>

RemoveSlice ==
    \E name \in SliceNames \cup {NoSuchName} :
        /\ timeline' = remove_slice(timeline, name)
        /\ UNCHANGED <<window, disk, config_vars, error_vars>>

ClearSlices ==
    /\ timeline' = clear_slices(timeline)
    /\ UNCHANGED <<window, disk, config_vars, error_vars>>

UpdateSliceAttrs ==
    \E current_name \in SliceNames \cup {NoSuchName}, kwargs \in KwargsSet :
        /\ "name" \in DOMAIN kwargs
           => kwargs["name"] \notin NamesInUse \ {current_name}
        /\ timeline' = update_slice_attrs(timeline, current_name, kwargs)
        /\ UNCHANGED <<window, disk, config_vars, error_vars>>

SetActiveSlice ==
    \E name \in SliceNames \cup {NoSuchName}, after \in NameArgs :
        /\ timeline' = set_active_slice(timeline, name, after)
        /\ UNCHANGED <<window, disk, config_vars, error_vars>>

\* Time passes and the clock calls _update_clock.
UpdateClock ==
    /\ timeline.now < MaxTime
    /\ timeline' = _update_clock([timeline EXCEPT !.now = @ + 1])
    /\ UNCHANGED <<window, disk, config_vars, error_vars>>

NextTimeLine ==
    \/ AddSlice
    \/ RemoveSlice
    \/ ClearSlices
    \/ UpdateSliceAttrs
    \/ SetActiveSlice
    \/ UpdateClock

InitUI ==
    /\ InitApp
    /\ InitTimeLine

\* ------------------------------------------------------- specifications

Init == InitConfig /\ InitError /\ InitUI

\* Spec: the configuration cycle on the object graph. SpecSettings: the
\* app's settings file. SpecError: the exception reporting.
Spec == Init /\ [][Next]_vars
SpecSettings == Init /\ [][NextSettings]_vars
SpecError == Init /\ [][NextError]_vars
SpecIndicator == Init /\ [][NextIndicator]_vars
SpecApp == Init /\ [][NextApp]_vars
SpecTimeLine == Init /\ [][NextTimeLine]_vars

\* ------------------------------------------------------------ properties

SeqRange(s) == {s[i] : i \in 1..Len(s)}

\* The names in the __config_props__ of a class and of its bases.
DeclaredOfClass(c) ==
    UNION {SeqRange(ConfigProps(k)) :
              k \in ({c} \cup SeqRange(_get_bases(c))) \cap HasConfigProps}

\* The declared properties of instance o.
Declared(o) == DeclaredOfClass(ClassOf(o))

\* Every declared property of o that cfg names has the value cfg gives it.
HasValuesOf(o, cfg) ==
    /\ cfg.tag = "dict"
    /\ \A k \in DOMAIN cfg.m \cap Declared(o) : heap[o][k] = cfg.m[k]

\* C1: apply_config sets only declared properties: no instance ever carries
\* an attribute that is not in the __config_props__ of its class and bases.
C1_OnlyDeclaredPropsSet ==
    \A o \in Instances : DOMAIN heap[o] \subseteq Declared(o)

\* C2: apply_config on an object whose get_config_instances maps a name to
\* a list (lholder) or a dict (dholder) of sub-objects, given the matching
\* list or dict of configs, completes without error and leaves every
\* sub-object's declared properties equal to the values of its config.
C2_NestedCollectionsApplied ==
    /\ (/\ last.op = "apply_config"
        /\ last.target = Obj("lholder")
        /\ last.config \in ListHolderConfigs)
       => /\ last.err = NoErr
          /\ HasValuesOf("leaf1", last.config.m["items"].l[1])
          /\ HasValuesOf("leaf2", last.config.m["items"].l[2])
    /\ (/\ last.op = "apply_config"
        /\ last.target = Obj("dholder")
        /\ last.config \in DictHolderConfigs)
       => /\ last.err = NoErr
          /\ HasValuesOf("leaf2", last.config.m["chans"].m["a"])
          /\ HasValuesOf("root", last.config.m["chans"].m["b"])

\* The file given to the last call holds a document with an 'app' section.
FileHadAppSection ==
    /\ last.config.kind = "yaml"
    /\ last.config.doc.tag = "dict"
    /\ "app" \in DOMAIN last.config.doc.m
    /\ last.config.doc.m["app"].tag = "dict"

\* C3: after load_app_settings_from_file, app_settings equals the content
\* of the config file and every declared property of the app with a value
\* under the file's 'app' section equals that value.
C3_LoadAppliesFileValues ==
    (last.op = "load_app_settings_from_file" /\ FileHadAppSection)
    => /\ app_settings = last.config.doc
       /\ HasValuesOf("app", last.config.doc.m["app"])

\* C4: read_config_from_file returns an empty mapping and raises nothing
\* when the file is missing, cannot be opened or is empty.
C4_MissingOrEmptyFileReadsEmpty ==
    (/\ last.op = "read_config_from_file"
     /\ last.config.kind \in {"missing", "unreadable", "empty"})
    => (last.err = NoErr /\ last.ret = EmptyDict)

C4_Witness ==
    /\ last.op = "read_config_from_file"
    /\ last.config.kind = "empty"
    /\ last.err = NoErr
    /\ last.ret = EmptyDict

\* C5: read_config_from_file lets no exception escape, and returns an empty
\* dict for every kind of error, a file that is no YAML included.
C5_ReadNeverRaises ==
    last.op = "read_config_from_file"
    => /\ last.err = NoErr
       /\ last.config.kind \in {"missing", "unreadable", "malformed"}
          => last.ret = EmptyDict

\* C6: with the config file missing or empty, load_app_settings_from_file
\* completes without raising, app_settings is the empty mapping and every
\* declared property of the app keeps its value.
C6_MissingFileIsEmptyConfig ==
    [][(/\ last'.op = "load_app_settings_from_file"
        /\ file.kind \in {"missing", "empty"})
       => /\ last'.err = NoErr
          /\ app_settings' = EmptyDict
          /\ \A k \in Declared("app") : heap'["app"][k] = heap["app"][k]]_vars

\* The complete config trees of the graph below a root of single children.
CompleteConfigs(obj) ==
    CASE obj = Obj("leaf1") -> LeafConfigs
      [] obj = Obj("leaf2") -> BaseLeafConfigs
      [] obj = Obj("root") -> RootConfigs
      [] obj = Obj("top") -> TopConfigs
      [] obj = Obj("app") ->
            {Dict(Map1("app", d)) : d \in FullDicts({"inspect"})}
      [] OTHER -> {}

\* C7: for a graph of single children (the root listing itself included),
\* apply_config(obj, read_config_from_object(obj)) completes and changes
\* nothing, and after apply_config(obj, c) with c a complete config tree
\* read_config_from_object(obj) returns c.
C7_RoundTrip ==
    [][/\ last'.op = "reapply" => (last'.err = NoErr /\ heap' = heap)
       /\ (/\ last'.op = "apply_config"
           /\ last'.config \in CompleteConfigs(last'.target))
          => /\ last'.err = NoErr
             /\ read_config_from_object(heap', last'.target, FALSE)
                    = [v |-> last'.config, err |-> NoErr]]_vars

C7_Witness ==
    /\ last.op = "apply_config"
    /\ last.target = Obj("top")
    /\ last.config \in TopConfigs
    /\ last.err = NoErr
    /\ heap["leaf1"]["gain"] = Val(MaxVal)
    /\ heap["leaf2"]["offset"] = Val(1)
    /\ heap["root"]["rate"] = Val(0)

RECURSIVE Mirrors(_, _, _)

\* cfg mirrors a declared entry: one config for a single object, a list of
\* the same length and order for a list, the same keys for a dict.
MirrorsEntry(root_obj, obj, cfg) ==
    CASE obj.tag = "list" ->
            /\ cfg.tag = "list"
            /\ Len(cfg.l) = Len(obj.l)
            /\ \A i \in 1..Len(obj.l) :
                   Mirrors(obj.l[i], cfg.l[i], obj.l[i] = root_obj)
      [] obj.tag = "dict" ->
            /\ cfg.tag = "dict"
            /\ DOMAIN cfg.m = DOMAIN obj.m
            /\ \A k \in DOMAIN obj.m :
                   Mirrors(obj.m[k], cfg.m[k], obj.m[k] = root_obj)
      [] OTHER -> Mirrors(obj, cfg, obj = root_obj)

\* cfg is the config dict of obj: one key per declared child and, unless
\* obj lists itself among its children (its properties are then under that
\* child's name), one key per declared property, holding its value.
Mirrors(obj, cfg, props_only) ==
    LET children == IF props_only \/ DeclaredObjects(obj) = None THEN <<>>
                    ELSE DeclaredObjects(obj).items
        names == {children[i][1] : i \in 1..Len(children)}
        own == IF \E i \in 1..Len(children) : children[i][2] = obj THEN {}
               ELSE IF isclass(obj) THEN DeclaredOfClass(obj.id)
               ELSE Declared(obj.id)
    IN /\ cfg.tag = "dict"
       /\ DOMAIN cfg.m = names \cup own
       /\ \A i \in 1..Len(children) :
              MirrorsEntry(obj, children[i][2], cfg.m[children[i][1]])
       /\ \A k \in own : cfg.m[k] = heap[obj.id][k]

\* C8: the tree returned by read_config_from_object mirrors the object
\* graph, and each object's config dict holds each declared property once.
C8_ReadMirrorsGraph ==
    (last.op = "read_config_from_object" /\ last.err = NoErr)
    => Mirrors(last.target, last.ret, FALSE)

C8_Witness ==
    /\ last.op = "read_config_from_object"
    /\ last.target = Obj("lholder")
    /\ last.err = NoErr
    /\ last.ret.m["items"].tag = "list"
    /\ Len(last.ret.m["items"].l) = 2
    /\ last.ret.m["items"].l[1].m["gain"] = Val(MaxVal)

RECURSIVE Supplied(_, _, _)

\* The (instance, key) pairs of the config dicts that apply_config(obj, cfg)
\* supplies to the instances of the graph below obj.
Supplied(obj, cfg, props_only) ==
    IF obj.tag # "obj" \/ cfg.tag # "dict" THEN {}
    ELSE LET children == IF props_only \/ DeclaredObjects(obj) = None THEN <<>>
                         ELSE DeclaredObjects(obj).items
         IN {<<obj.id, k>> : k \in DOMAIN cfg.m}
            \cup UNION {Supplied(children[i][2], cfg.m[children[i][1]],
                                 children[i][2] = obj) :
                           i \in {j \in 1..Len(children) :
                                     children[j][1] \in DOMAIN cfg.m}}

\* C9: apply_config changes a declared property of an instance only when
\* its name is a key of the config supplied to that instance, and
\* apply_config on a class object changes nothing.
C9_OnlyConfigKeysChange ==
    [][last'.op = "apply_config"
       => /\ \A o \in Instances : \A k \in Declared(o) \cap DOMAIN heap[o] :
                 heap'[o][k] # heap[o][k]
                 => <<o, k>> \in Supplied(last'.target, last'.config, FALSE)
          /\ isclass(last'.target) => heap' = heap]_vars

C9_Witness ==
    /\ last.op = "apply_config"
    /\ last.target = Obj("root")
    /\ last.config = Dict(Map1("child", Dict(Map1("gain", Val(MaxVal)))))
    /\ last.err = NoErr
    /\ heap["leaf1"]["gain"] = Val(MaxVal)
    /\ heap["leaf1"]["offset"] = Val(1)
    /\ heap["root"]["rate"] = Val(MaxVal)

\* The report of one exception: a callback on the clock when threaded, else
\* its log lines and, with an app running and an indicator set, one item.
ReportedOnce(threaded) ==
    IF threaded
    THEN /\ Len(clock') = Len(clock) + 1
         /\ UNCHANGED <<logged, error_indicator>>
    ELSE /\ clock' = clock
         /\ Len(logged') = Len(logged) + 2
         /\ (running /\ error_indicator # None)
            => error_indicator'.count = error_indicator.count + 1
         /\ ~(running /\ error_indicator # None)
            => error_indicator' = error_indicator

\* C10: a wrapper of app_error or app_error_async whose callable raises an
\* Exception lets nothing escape, returns None and reports the exception
\* exactly once; when the callable returns, the wrapper returns the same
\* value and reports nothing.
C10_WrapperContainsExceptions ==
    [][calls'.n # calls.n
       => /\ calls'.beh.kind = "raise"
             => /\ calls'.raised = NoErr
                /\ calls'.ret = None
                /\ calls'.reports = 1
                /\ ReportedOnce(calls'.threaded)
          /\ calls'.beh.kind = "return"
             => /\ calls'.raised = NoErr
                /\ calls'.ret = Val(calls'.beh.v)
                /\ calls'.reports = 0
                /\ UNCHANGED <<clock, logged, error_indicator>>]_vars

C10_Witness ==
    /\ calls.fn = "app_error_async"
    /\ calls.beh.kind = "raise"
    /\ ~calls.threaded
    /\ calls.raised = NoErr
    /\ calls.ret = None
    /\ running
    /\ error_indicator # None
    /\ error_indicator.count = calls.n
    /\ calls.n > 1

\* The lines logged by this step.
NewLines == SubSeq(logged', Len(logged) + 1, Len(logged'))

\* This step handles exception e exactly once: the log grows by lines of
\* which exactly one carries e, written by the running app's handler
\* (Logger) or, with no app running, by the logging fallback; with an app
\* running and an indicator set the indicator gets exactly one item.
HandledOnce(e) ==
    /\ Len(logged') > Len(logged)
    /\ SubSeq(logged', 1, Len(logged)) = logged
    /\ Cardinality({i \in 1..Len(NewLines) : NewLines[i].msg = e}) = 1
    /\ \A i \in 1..Len(NewLines) :
           NewLines[i].logger = IF running THEN "Logger" ELSE "logging"
    /\ IF running /\ error_indicator # None
       THEN error_indicator'.count = error_indicator.count + 1
       ELSE error_indicator' = error_indicator

\* C11: report_exception_in_app with threaded=True only schedules one clock
\* callback (nothing is logged or displayed before it returns), and the
\* clock running that callback handles the exception exactly once, by the
\* running app's handle_exception or else by the logging fallback; with
\* threaded=False the exception is handled exactly once before it returns.
C11_ThreadedReportIsDeferred ==
    [][/\ (calls'.n # calls.n /\ calls'.reports = 1)
          => IF calls'.threaded
             THEN /\ clock' = Append(clock, [e |-> calls'.beh.e,
                                             exc_info |->
                                                 IF calls'.beh.kind = "report"
                                                 THEN calls'.beh.exc_info
                                                 ELSE "str"])
                  /\ UNCHANGED <<logged, error_indicator>>
             ELSE /\ clock' = clock
                  /\ HandledOnce(calls'.beh.e)
       /\ (calls' = calls /\ clock' # clock)
          => /\ clock' = Tail(clock)
             /\ HandledOnce(Head(clock).e)]_vars

\* A threaded report made with no app running and no exc_info has been
\* handled by the clock: the logging fallback wrote its one line.
C11_Witness ==
    /\ calls.n = 1
    /\ calls.fn = "report_exception_in_app"
    /\ calls.threaded
    /\ calls.beh.exc_info = "none"
    /\ clock = <<>>
    /\ logged = <<LogLine("logging", "error", calls.beh.e)>>

\* The levels that name a method of the logger.
LoggerLevels == {"error", "exception", "warning", "info", "debug", "critical"}

\* C12: a call of handle_exception (with a level the logger has) completes
\* without error and logs the message; with error_indicator set it adds
\* exactly one item, carrying the message text, and with error_indicator
\* unset it adds nothing.
C12_HandleLogsAndOptionallyDisplays ==
    [][(/\ calls'.n # calls.n
        /\ calls'.fn = "handle_exception"
        /\ (calls'.beh.level \in LoggerLevels \/ calls'.beh.exc_info = "str"))
       => /\ calls'.raised = NoErr
          /\ Len(logged') > Len(logged)
          /\ SubSeq(logged', 1, Len(logged)) = logged
          /\ NewLines[1].msg = calls'.beh.e
          /\ IF error_indicator # None
             THEN /\ error_indicator'.count = error_indicator.count + 1
                  /\ Len(error_indicator'.data) = Len(error_indicator.data) + 1
                  /\ SubSeq(error_indicator'.data, 1, Len(error_indicator.data))
                        = error_indicator.data
                  /\ error_indicator'.data[Len(error_indicator'.data)].text
                        = Format(calls'.beh.e)
             ELSE error_indicator' = None]_vars

\* handle_exception has run with no indicator set and, later, with one set.
C12_Witness ==
    /\ calls.fn = "handle_exception"
    /\ calls.beh.level = "warning"
    /\ calls.beh.exc_info = "none"
    /\ calls.raised = NoErr
    /\ error_indicator # None
    /\ error_indicator.count = 1
    /\ error_indicator.data = <<[text |-> Format(calls.beh.e),
                                 icon_name |-> "error"]>>
    /\ Len(logged) = 2
    /\ logged[2] = LogLine("Logger", "warning", calls.beh.e)

\* C20: after add_item returns for an item with a valid level, the indicator
\* is no longer in the 'ok' state and its animation has been started.
C20_AddItemNotifies ==
    [][(/\ calls'.n # calls.n
        /\ calls'.fn = "add_item"
        /\ calls'.beh.level \in {"error", "warning", "info"})
       => /\ calls'.raised = NoErr
          /\ error_indicator'.level # "ok"
          /\ error_indicator'.anim]_vars

\* C13: _ask_close vetoes the close request exactly when check_close answers
\* false; it opens the popup only then, and only when _close_message is not
\* empty and the popup exists; when check_close answers true it returns
\* False and leaves the popup as it was.
C13_CloseVetoedIffCannotClose ==
    [][window'.op = "_ask_close"
       => /\ window'.ret = ~check_close(window)
          /\ window'.opened =
                IF ~check_close(window) /\ window.message # ""
                   /\ window.popup # None
                THEN 1 ELSE 0
          /\ window'.opened = 1 => window'.popup.open
          /\ window'.opened = 0 => window'.popup = window.popup]_vars

\* A close request was vetoed with an empty close message: no popup opened.
C13_Witness ==
    /\ window.op = "_ask_close"
    /\ window.ret
    /\ window.opened = 0
    /\ window.message = ""
    /\ window.popup # None
    /\ ~window.popup.open

\* The file holds an INI document with the path option in section App.
HasPathEntry(f) ==
    /\ f.kind = "ini"
    /\ has_option(f.doc, "App", PathOption)

\* C14: init_config (which fails only on a config.ini that is no INI
\* document) leaves an [App] json_config_path entry in config.ini that
\* equals the app's json_config_path: the entry stored before when there
\* was one, else the value the property had; and the config file at that
\* path exists.
C14_InitConfigSyncsIniAndPath ==
    [][disk'.op = "init_config"
       => /\ disk.files[IniFile].kind # "malformed" => disk'.err = NoErr
          /\ disk'.err = NoErr
             => /\ HasPathEntry(disk'.files[IniFile])
                /\ parser_get(disk'.files[IniFile].doc, "App", PathOption)
                     = disk'.path
                /\ disk'.path =
                     IF HasPathEntry(disk.files[IniFile])
                     THEN parser_get(disk.files[IniFile].doc, "App", PathOption)
                     ELSE disk.path
                /\ disk'.files[disk'.path].kind # "missing"]_vars

\* init_config took config.json from the INI file while the property held
\* config.yaml, and created config.json.
C14_Witness ==
    /\ disk.op = "init_config"
    /\ disk.err = NoErr
    /\ disk.path = "config.json"
    /\ disk.files["config.json"] = FileState("yaml", EmptyDict)
    /\ disk.files[IniFile].doc["App"] = Map2(PathOption, "config.json", "theme", "dark")
    /\ "Other" \in DOMAIN disk.files[IniFile].doc

\* The names of the widgets in slices, and of the widgets of the box in the
\* order they are displayed.
NamesOfSlices(t) == [i \in 1..Len(t.slices) |-> t.w[t.slices[i]].name]
Displayed(t) ==
    [i \in 1..Len(t.children) |-> t.w[Reversed(t.children)[i]].name]

\* C15: add_slice(name, before=b), b an existing slice, inserts the new
\* slice immediately before b in slices, slice_names and the displayed
\* order and keeps the order of the other slices; with before=None the new
\* slice is added at the end.
C15_AddSliceBefore ==
    [][\A name \in SliceNames, before \in NameArgs, duration \in Durations :
        (/\ timeline'.op = "add_slice"
         /\ name \notin NamesInUse
         /\ before # None => before.v \in NamesInUse
         /\ timeline' = add_slice(timeline, name, before, duration))
        => LET i == IF before = None THEN Len(timeline.slice_names)
                    ELSE list_index(timeline.slice_names, before.v).i
               expected == InsertAt(timeline.slice_names, i, name)
           IN /\ timeline'.err = NoErr
              /\ timeline'.slice_names = expected
              /\ NamesOfSlices(timeline') = expected
              /\ Displayed(timeline') = expected]_vars

\* The widget at position k (from 1) of slices.
SliceAt(t, k) == t.w[t.slices[k]]
\* Slice k is marked done.
IsDone(t, k) == SliceAt(t, k).elapsed_t >= SliceAt(t, k).duration

\* C16: set_active_slice(name), name an existing slice at index i, from any
\* state of the time line: afterwards every slice before i is done
\* (elapsed_t >= duration), slice i and every later slice has elapsed_t 0,
\* current_slice is i and the timer start is reset.
C16_SetActiveExisting ==
    [][\A name \in SliceNames, after \in NameArgs :
        (/\ timeline'.op = "set_active_slice"
         /\ name \in NamesInUse
         /\ timeline' = set_active_slice(timeline, name, after))
        => LET i == list_index(timeline.slice_names, name).i
           IN /\ timeline'.err = NoErr
              /\ timeline'.current_slice = Val(i)
              /\ timeline'.start_t = timeline'.now
              /\ timeline'.slices = timeline.slices
              /\ \A k \in 1..Len(timeline'.slices) :
                     IF k - 1 < i THEN IsDone(timeline', k)
                     ELSE SliceAt(timeline', k).elapsed_t = 0]_vars

\* The second of two slices was made active after time had passed: the
\* first, of duration 20000, is done and the second is at 0.
C16_Witness ==
    /\ timeline.op = "set_active_slice"
    /\ timeline.err = NoErr
    /\ Len(timeline.slices) = 2
    /\ timeline.current_slice = Val(1)
    /\ SliceAt(timeline, 1).duration = 20000
    /\ SliceAt(timeline, 1).elapsed_t = 20000
    /\ SliceAt(timeline, 2).elapsed_t = 0
    /\ timeline.now = MaxTime
    /\ timeline.start_t = timeline.now

\* C17: set_active_slice(name, after), name not an existing slice: with
\* after None the slices up to and including the current one are marked
\* done (the others keep their elapsed time); with after an existing slice
\* the slices up to and including it are marked done and the later ones
\* are reset to 0; current_slice becomes None, text becomes name and the
\* timer restarts.
C17_SetActiveUnknown ==
    [][\A name \in SliceNames \cup {NoSuchName}, after \in NameArgs :
        (/\ timeline'.op = "set_active_slice"
         /\ name \notin NamesInUse
         /\ after # None => after.v \in NamesInUse
         /\ timeline' = set_active_slice(timeline, name, after))
        => /\ timeline'.err = NoErr
           /\ timeline'.current_slice = None
           /\ timeline'.text = name
           /\ timeline'.start_t = timeline'.now
           /\ timeline'.slices = timeline.slices
           /\ \A k \in 1..Len(timeline'.slices) :
                  IF after = None
                  THEN IF timeline.current_slice # None
                          /\ k - 1 <= timeline.current_slice.v
                       THEN IsDone(timeline', k)
                            /\ SliceAt(timeline', k).elapsed_t >= DoneTime
                       ELSE SliceAt(timeline', k).elapsed_t
                                = SliceAt(timeline, k).elapsed_t
                  ELSE IF k - 1 <= list_index(timeline.slice_names, after.v).i
                       THEN IsDone(timeline', k)
                            /\ SliceAt(timeline', k).elapsed_t >= DoneTime
                       ELSE SliceAt(timeline', k).elapsed_t = 0]_vars

\* A name no slice has was set active: the first of two slices is done, the
\* second is at 0, no slice is current and the status text is that name.
C17_Witness ==
    /\ timeline.op = "set_active_slice"
    /\ timeline.err = NoErr
    /\ timeline.text = NoSuchName
    /\ timeline.current_slice = None
    /\ Len(timeline.slices) = 2
    /\ SliceAt(timeline, 1).elapsed_t = DoneTime
    /\ SliceAt(timeline, 2).elapsed_t = 0
    /\ timeline.now > 0
    /\ timeline.start_t = timeline.now

\* C18: slices and slice_names have the same length, slice_names[i] is the
\* name of slices[i] for every i, and this is the order in which the slice
\* widgets are displayed.
C18_NamesMirrorSlices ==
    /\ Len(timeline.slice_names) = Len(timeline.slices)
    /\ \A i \in 1..Len(timeline.slices) :
           timeline.slice_names[i] = SliceAt(timeline, i).name
    /\ Reversed(timeline.children) = timeline.slices

\* Two slices, the one added first removed and added again and then one
\* renamed.
C18_Witness ==
    /\ timeline.op = "update_slice_attrs"
    /\ timeline.err = NoErr
    /\ timeline.slices = <<2, 1>>
    /\ timeline.slice_names = <<"a", "b">>

\* C19: a tick of _update_clock never indexes outside slices.
C19_ClockTickInRange ==
    timeline.op = "_update_clock" => timeline.err = NoErr

\* C21: add_item with a level other than error, warning or info raises
\* ValueError and leaves the indicator unchanged (count, _level, the logged
\* items, no on_log_event); with a valid level it increments count by one,
\* appends one log item and dispatches on_log_event once; so count always
\* equals the number of items added.
C21_AddItemCounts ==
    [][/\ (calls'.n # calls.n /\ calls'.fn = "add_item")
          => IF calls'.beh.level \in {"error", "warning", "info"}
             THEN /\ calls'.raised = NoErr
                  /\ error_indicator'.count = error_indicator.count + 1
                  /\ error_indicator'.data =
                        Append(error_indicator.data,
                               [text |-> calls'.beh.e,
                                icon_name |-> calls'.beh.level])
                  /\ error_indicator'.events = error_indicator.events + 1
             ELSE /\ calls'.raised = "ValueError"
                  /\ error_indicator' = error_indicator
       /\ error_indicator' # None
          => /\ error_indicator'.count = Len(error_indicator'.data)
             /\ error_indicator'.count = error_indicator'.events]_vars

\* Two items were added and then add_item was called with an invalid level:
\* it raised ValueError and the count is still two.
C21_Witness ==
    /\ calls.fn = "add_item"
    /\ calls.beh.level = "debug"
    /\ calls.raised = "ValueError"
    /\ error_indicator.count = 2
    /\ Len(error_indicator.data) = 2
    /\ error_indicator.events = 2

====
